---- MODULE Spec2Model ----
(***************************************************************************)
(* Model of the Bitwarden Secrets Manager secret provider                  *)
(* (secret/bws/provider.go): the reference parser, the TTL cache of        *)
(* project/secret identifiers guarded by a sync.RWMutex, and Close guarded *)
(* by a sync.Once.  Goroutines call Resolve and Close concurrently; the    *)
(* backend, the injected clock and the callers' contexts are environment.  *)
(*                                                                         *)
(* A Go string is a sequence of atoms.  The atoms "/" and " " are the      *)
(* separator and a whitespace character; every other atom is a run of      *)
(* non-separator, non-whitespace characters, and no concatenation of atoms *)
(* equals another atom.                                                    *)
(***************************************************************************)
EXTENDS Integers, Sequences, FiniteSets, TLC

VARIABLES
    orgID,          \* provider.orgID
    cacheTTL,       \* bwsCache.cacheTTL
    clock,          \* what the injected provider.now returns
    backend,        \* what the organization holds in the backend right now
    nChanges,       \* number of changes made in the backend so far
    projectByName,  \* bwsCache.projectByName
    secretByProj,   \* bwsCache.secretByProj
    expiresAt,      \* bwsCache.expiresAt (0 is the zero time.Time)
    writer,         \* bwsCache.mu: the goroutine holding the write lock
    readers,        \* bwsCache.mu: the goroutines holding a read lock
    onceDone,       \* provider.close (sync.Once): done flag
    onceMu,         \* provider.close (sync.Once): holder of its mutex
    clientCloses,   \* number of client.Close() calls made so far
    nCalls,         \* number of Resolve/Close invocations started so far
    pc,             \* per goroutine: where it is in the code
    call,           \* per goroutine: the invocation it runs and its arguments
    ctxDone,        \* per goroutine: its context is cancelled
    loc,            \* per goroutine: the local variables of the invocation
    res,            \* per goroutine: what the invocation returned
    cnt,            \* per goroutine: backend calls issued by this invocation
    obs,            \* per goroutine: history of this invocation (ghost)
    stamp,          \* which invocation last wrote each cache field (ghost)
    inst,           \* the responses the installed maps were built from (ghost)
    nClear,         \* number of times Close cleared the snapshot (ghost)
    sinceClose      \* an invocation has started since Close completed (ghost)

vars == <<orgID, cacheTTL, clock, backend, nChanges, projectByName,
          secretByProj, expiresAt, writer, readers, onceDone, onceMu,
          clientCloses, nCalls, pc, call, ctxDone, loc, res, cnt, obs, stamp,
          inst, nClear, sinceClose>>

cacheVars == <<projectByName, secretByProj, expiresAt>>

-----------------------------------------------------------------------------
(* Bounds of the model *)

MaxCalls == 2
MaxClock == 3
MaxChanges == 1
MaxSegments == 5

Procs == {"g1", "g2"}
NoProc == "none"

-----------------------------------------------------------------------------
(* Strings *)

S(a) == <<a>>
Empty == <<>>
Slash == "/"
Space == " "

RECURSIVE TrimLeft(_)
TrimLeft(s) ==
    IF s # <<>> /\ Head(s) = Space THEN TrimLeft(Tail(s)) ELSE s

RECURSIVE TrimRight(_)
TrimRight(s) ==
    IF s # <<>> /\ s[Len(s)] = Space
    THEN TrimRight(SubSeq(s, 1, Len(s) - 1))
    ELSE s

\* the reference is used as given
TrimSpace_None(s) == s

TrimSpace(s) == TrimRight(TrimLeft(s))

\* strings.Split(s, "/"): the segments between separators, empty ones included
RECURSIVE SplitFrom(_, _, _)
SplitFrom(s, i, cur) ==
    IF i > Len(s) THEN <<cur>>
    ELSE IF s[i] = Slash THEN <<cur>> \o SplitFrom(s, i + 1, <<>>)
    ELSE SplitFrom(s, i + 1, Append(cur, s[i]))

Split(s) == SplitFrom(s, 1, <<>>)

\* the check of line 136, that both names are non-empty, left out
parseProjectKeyRef_AllowEmpty(ref) ==
    LET parts == Split(ref)
        no == [projectName |-> Empty, keyName |-> Empty, ok |-> FALSE]
    IN  IF Len(parts) # 4 THEN no
        ELSE IF parts[1] # S("project") \/ parts[3] # S("key") THEN no
        ELSE [projectName |-> parts[2], keyName |-> parts[4], ok |-> TRUE]

parseProjectKeyRef(ref) ==
    LET parts == Split(ref)
        no == [projectName |-> Empty, keyName |-> Empty, ok |-> FALSE]
    IN  IF Len(parts) # 4 THEN no
        ELSE IF parts[1] # S("project") \/ parts[3] # S("key") THEN no
        ELSE IF parts[2] = Empty \/ parts[4] = Empty THEN no
        ELSE [projectName |-> parts[2], keyName |-> parts[4], ok |-> TRUE]

-----------------------------------------------------------------------------
(* Go maps *)

EmptyMap == [x \in {} |-> <<>>]

Put(m, k, v) == [x \in DOMAIN m \cup {k} |-> IF x = k THEN v ELSE m[x]]

Has(m, k) == k \in DOMAIN m

Range(m) == {m[x] : x \in DOMAIN m}

-----------------------------------------------------------------------------
(* The backend: sdk.ProjectResponse and sdk.SecretResponse records.  A     *)
(* ProjectID is a *string: <<>> is nil and <<x>> points to x.              *)

Project(id, name) == [ID |-> S(id), Name |-> S(name)]

Secret(id, key, projectID, value) ==
    [ID |-> S(id), Key |-> S(key), ProjectID |-> projectID, Value |-> S(value)]

NilProject == <<>>
Ptr(x) == <<S(x)>>

\* one project holding one secret (the set-up of the tests)
BackendOne ==
    [projects |-> <<Project("p1", "a")>>,
     secrets  |-> <<Secret("s1", "k", Ptr("p1"), "v1")>>]

\* two projects of the same name, one secret in the first, two secrets under
\* the same key in the second, and a secret that belongs to no project
BackendDup ==
    [projects |-> <<Project("p1", "a"), Project("p2", "a")>>,
     secrets  |-> <<Secret("s1", "k", Ptr("p1"), "v2"),
                    Secret("s2", "k", Ptr("p2"), "v1"),
                    Secret("s3", "k", NilProject, "v1"),
                    Secret("s4", "k", Ptr("p2"), "v2")>>]

\* an organization with no project and no secret
BackendNone == [projects |-> <<>>, secrets |-> <<>>]

\* one project that holds no secret
BackendBare == [projects |-> <<Project("p1", "a")>>, secrets |-> <<>>]

Backends == {BackendOne, BackendDup, BackendNone, BackendBare}

\* the references the callers pass to Resolve
RefDirect == <<Space, "s1", Space>>
RefBlank == <<Space>>
RefProjectKey == <<"project", Slash, "a", Slash, "key", Slash, "k">>
RefNoKey == <<Space, "project", Slash, "a", Slash, "key", Slash, "z">>

Refs == {RefDirect, RefBlank, RefProjectKey, RefNoKey}

\* the references given to the parser: up to MaxSegments segments joined by
\* "/", each a string without "/"
SegmentValues == {Empty, S("project"), S("key"), S("a"), S("k"), S(Space)}

SegSeqs == UNION {[1..n -> SegmentValues] : n \in 1..MaxSegments}

RECURSIVE Join(_)
Join(segs) ==
    IF Len(segs) = 1 THEN segs[1]
    ELSE segs[1] \o <<Slash>> \o Join(Tail(segs))

ParseRefs == {Join(segs) : segs \in SegSeqs}

OrgIDs == {S("org"), S(Space)}
TTLs == {0, 1}

-----------------------------------------------------------------------------
(* Per-goroutine state *)

\* op, id: the method called and the number of the invocation
\* ref, ctx: the arguments of Resolve (ctx: it is cancelled at the call)
\* projectName, keyName: what parseProjectKeyRef returned
NoCall == [op |-> "none", id |-> 0, ref |-> Empty, ctx |-> FALSE,
           projectName |-> Empty, keyName |-> Empty]

NoLoc == [projects |-> <<>>, ids |-> <<>>, secrets |-> <<>>,
          projectID |-> Empty, secretID |-> Empty, ok |-> FALSE]

NoRes == [err |-> "none", value |-> Empty]

NoCnt == [projectsList |-> 0, secretsList |-> 0, getByIDS |-> 0, get |-> 0,
          getArg |-> Empty]

\* check: what ensureCache found ("none", "always", "fresh", "empty", "expired")
\* ids: what Secrets.List returned ("none", "empty", "some")
\* pbn, sbp: the invocations whose writes the lookup read, while it holds
\*           the read lock
\* now: the clock value the swap read, while it holds the write lock
NoObs == [check |-> "none", ids |-> "none", pbn |-> 0, sbp |-> 0, now |-> 0]

Init ==
    /\ orgID \in OrgIDs
    /\ cacheTTL \in TTLs
    /\ clock = 1
    /\ backend \in Backends
    /\ nChanges = 0
    /\ projectByName = EmptyMap
    /\ secretByProj = EmptyMap
    /\ expiresAt = 0
    /\ writer = NoProc
    /\ readers = {}
    /\ onceDone = FALSE
    /\ onceMu = NoProc
    /\ clientCloses = 0
    /\ nCalls = 0
    /\ pc = [p \in Procs |-> "idle"]
    /\ call = [p \in Procs |-> NoCall]
    /\ ctxDone = [p \in Procs |-> FALSE]
    /\ loc = [p \in Procs |-> NoLoc]
    /\ res = [p \in Procs |-> NoRes]
    /\ cnt = [p \in Procs |-> NoCnt]
    /\ obs = [p \in Procs |-> NoObs]
    /\ stamp = [pbn |-> 0, sbp |-> 0, exp |-> 0]
    /\ inst = [projects |-> <<>>, secrets |-> <<>>]
    /\ nClear = 0
    /\ sinceClose = FALSE

-----------------------------------------------------------------------------
(* Helpers of the actions *)

envVars == <<clock, backend, nChanges>>
cfgVars == <<orgID, cacheTTL>>
lockVars == <<writer, readers>>
onceVars == <<onceDone, onceMu, clientCloses, nClear>>
ghostVars == <<stamp, inst>>

ErrEmptyRef == "bws ref is empty"
ErrOrgRequired == "bws organization id is required for project/key lookup"
ErrProjectNotFound == "bws project not found"
ErrSecretNotFound == "bws secret not found in project"
ErrListProjects == "bws list projects"
ErrListSecrets == "bws list secrets"
ErrGetSecrets == "bws get secrets"
ErrGetSecret == "bws get secret"
ErrCanceled == "context canceled"

\* the invocation of p returns (value, err); its locals go out of scope
Returns(p, value, err) ==
    /\ pc' = [pc EXCEPT ![p] = "ret"]
    /\ res' = [res EXCEPT ![p] = [err |-> err, value |-> value]]
    /\ loc' = [loc EXCEPT ![p] = NoLoc]

Goto(p, label) == pc' = [pc EXCEPT ![p] = label]

\* a read lock that a writer does not keep out
CanRLock_NoExclusion(p) == TRUE

\* sync.RWMutex
CanRLock(p) == writer = NoProc
\* a write lock that keeps nobody out
CanLock_NoExclusion(p) == TRUE

CanLock(p) == writer = NoProc /\ readers = {}

\* Secrets().Get(id) of the backend: the value of the secret with that ID
SecretsOf(id) == {i \in DOMAIN backend.secrets : backend.secrets[i].ID = id}

\* Secrets().GetByIDS(ids) of the backend: the records of the secrets listed
RECURSIVE IDsOf(_)
IDsOf(secrets) ==
    IF secrets = <<>> THEN <<>>
    ELSE <<Head(secrets).ID>> \o IDsOf(Tail(secrets))

InSeq(x, seq) == \E i \in DOMAIN seq : seq[i] = x

RecordsOf(ids) == SelectSeq(backend.secrets, LAMBDA r : InSeq(r.ID, ids))

-----------------------------------------------------------------------------
(* Resolve, lines 91-112, and the guard of resolveByProjectKey, 142-148 *)

\* the organization ID is compared without being trimmed
OrgMissing_NoTrim(o) == o = Empty

OrgMissing(o) == TrimSpace(o) = Empty

Resolve(p, ref, done) ==
    /\ pc[p] = "idle"
    /\ nCalls < MaxCalls
    /\    LET trimmed == TrimSpace(ref)
              parsed == parseProjectKeyRef(trimmed)
          IN  /\ call' = [call EXCEPT ![p] =
                             [op |-> "Resolve", id |-> nCalls + 1, ref |-> ref,
                              ctx |-> done,
                              projectName |-> parsed.projectName,
                              keyName |-> parsed.keyName]]
              /\ ctxDone' = [ctxDone EXCEPT ![p] = done]
              /\ IF trimmed = Empty
                 THEN Returns(p, Empty, ErrEmptyRef)
                 ELSE IF parsed.ok
                 THEN IF OrgMissing(orgID)
                      THEN Returns(p, Empty, ErrOrgRequired)
                      ELSE Goto(p, "ensureCache") /\ UNCHANGED <<res, loc>>
                 ELSE Goto(p, "Resolve_Get") /\ UNCHANGED <<res, loc>>
    /\ nCalls' = nCalls + 1
    /\ sinceClose' = (sinceClose \/ onceDone)
    /\ UNCHANGED <<cfgVars, envVars, cacheVars, lockVars, onceVars, cnt, obs,
                   ghostVars>>

\* Secrets().Get is called with the reference as given, not trimmed
Resolve_Get_Untrimmed(p) ==
    /\ pc[p] = "Resolve_Get"
    /\ IF ctxDone[p]
       THEN Returns(p, Empty, ErrCanceled) /\ UNCHANGED cnt
       ELSE /\ cnt' = [cnt EXCEPT ![p].get = @ + 1, ![p].getArg = call[p].ref]
            /\ \/ Returns(p, Empty, ErrGetSecret)
               \/ \E i \in SecretsOf(call[p].ref) :
                     Returns(p, backend.secrets[i].Value, "none")
    /\ UNCHANGED <<cfgVars, envVars, cacheVars, lockVars, onceVars, nCalls,
                   call, ctxDone, obs, ghostVars, sinceClose>>

\* lines 101-111: the context is checked, then Secrets().Get(trimmed)
Resolve_Get(p) ==
    /\ pc[p] = "Resolve_Get"
    /\ LET trimmed == TrimSpace(call[p].ref)
       IN  IF ctxDone[p]
           THEN Returns(p, Empty, ErrCanceled) /\ UNCHANGED cnt
           ELSE /\ cnt' = [cnt EXCEPT ![p].get = @ + 1, ![p].getArg = trimmed]
                /\ \/ Returns(p, Empty, ErrGetSecret)
                   \/ \E i \in SecretsOf(trimmed) :
                         Returns(p, backend.secrets[i].Value, "none")
    /\ UNCHANGED <<cfgVars, envVars, cacheVars, lockVars, onceVars, nCalls,
                   call, ctxDone, obs, ghostVars, sinceClose>>

-----------------------------------------------------------------------------
(* ensureCache, lines 180-198 *)

\* the comparison of line 191 turned around
CacheFresh_Inverted(now, exp, n) == now > exp /\ n > 0

\* the expiry of line 191 left out
CacheFresh_NoExpiry(now, exp, n) == n > 0

\* a snapshot is still used at the instant it expires
CacheFresh_AtExpiry(now, exp, n) == now <= exp /\ n > 0

\* the test of line 191 that the project map is non-empty left out
CacheFresh_NoEmptyGuard(now, exp, n) == now < exp

\* line 191
CacheFresh(now, exp, n) == now < exp /\ n > 0

ensureCache(p) ==
    /\ pc[p] = "ensureCache"
    /\ IF cacheTTL <= 0
       THEN /\ Goto(p, "refreshCache")
            /\ obs' = [obs EXCEPT ![p].check = "always"]
            /\ UNCHANGED readers
       ELSE /\ CanRLock(p)
            /\ readers' = readers \cup {p}
            /\ Goto(p, "ensureCache_check")
            /\ UNCHANGED obs
    /\ UNCHANGED <<cfgVars, envVars, cacheVars, writer, onceVars, nCalls,
                   call, ctxDone, loc, res, cnt, ghostVars, sinceClose>>

\* the read lock of line 190 is kept while the refresh runs
ensureCache_check_Held(p) ==
    /\ pc[p] = "ensureCache_check"
    /\ LET n == Cardinality(DOMAIN projectByName)
       IN  /\ obs' = [obs EXCEPT ![p].check =
                         IF n = 0 THEN "empty"
                         ELSE IF clock < expiresAt THEN "fresh" ELSE "expired"]
           /\ IF CacheFresh(clock, expiresAt, n)
              THEN Goto(p, "lookup") /\ readers' = readers \ {p}
              ELSE Goto(p, "refreshCache") /\ UNCHANGED readers
    /\ UNCHANGED <<cfgVars, envVars, cacheVars, writer, onceVars, nCalls,
                   call, ctxDone, loc, res, cnt, ghostVars, sinceClose>>

ensureCache_check(p) ==
    /\ pc[p] = "ensureCache_check"
    /\ LET n == Cardinality(DOMAIN projectByName)
       IN  /\ obs' = [obs EXCEPT ![p].check =
                         IF n = 0 THEN "empty"
                         ELSE IF clock < expiresAt THEN "fresh" ELSE "expired"]
           /\ IF CacheFresh(clock, expiresAt, n)
              THEN Goto(p, "lookup")
              ELSE Goto(p, "refreshCache")
    /\ readers' = readers \ {p}
    /\ UNCHANGED <<cfgVars, envVars, cacheVars, writer, onceVars, nCalls,
                   call, ctxDone, loc, res, cnt, ghostVars, sinceClose>>

-----------------------------------------------------------------------------
(* refreshCache, lines 200-258 *)

\* lines 229-232: later entries overwrite earlier ones of the same name
\* the first project listed under a name is kept
RECURSIVE BuildProjectByNameFrom_FirstWins(_, _)
BuildProjectByNameFrom_FirstWins(m, projects) ==
    IF projects = <<>> THEN m
    ELSE BuildProjectByNameFrom_FirstWins(
             IF Has(m, Head(projects).Name) THEN m
             ELSE Put(m, Head(projects).Name, Head(projects).ID),
             Tail(projects))

RECURSIVE BuildProjectByNameFrom(_, _)
BuildProjectByNameFrom(m, projects) ==
    IF projects = <<>> THEN m
    ELSE BuildProjectByNameFrom(Put(m, Head(projects).Name, Head(projects).ID),
                                Tail(projects))

BuildProjectByName(projects) == BuildProjectByNameFrom(EmptyMap, projects)

\* a record without a project is filed under the empty project ID
AddSecret_NoSkip(m, secret) ==
    LET projectID == IF secret.ProjectID = NilProject THEN Empty
                     ELSE secret.ProjectID[1]
        inner == IF Has(m, projectID) THEN m[projectID] ELSE EmptyMap
    IN  Put(m, projectID, Put(inner, secret.Key, secret.ID))

\* lines 235-244, one record: a record without a project is skipped
AddSecret(m, secret) ==
    IF secret.ProjectID = NilProject THEN m
    ELSE LET projectID == secret.ProjectID[1]
             inner == IF Has(m, projectID) THEN m[projectID] ELSE EmptyMap
         IN  Put(m, projectID, Put(inner, secret.Key, secret.ID))

RECURSIVE BuildSecretByProjFrom(_, _)
BuildSecretByProjFrom(m, secrets) ==
    IF secrets = <<>> THEN m
    ELSE BuildSecretByProjFrom(AddSecret(m, Head(secrets)), Tail(secrets))

BuildSecretByProj(secrets) == BuildSecretByProjFrom(EmptyMap, secrets)

\* a failed Projects().List is tried once more before the refresh gives up
refreshCache_Retry(p) ==
    /\ pc[p] = "refreshCache"
    /\ IF ctxDone[p]
       THEN Returns(p, Empty, ErrCanceled) /\ UNCHANGED cnt
       ELSE /\ cnt' = [cnt EXCEPT ![p].projectsList = @ + 1]
            /\ \/ IF cnt[p].projectsList < 1
                  THEN UNCHANGED <<pc, res, loc>>
                  ELSE Returns(p, Empty, ErrListProjects)
               \/ /\ loc' = [loc EXCEPT ![p].projects = backend.projects]
                  /\ Goto(p, "refreshCache_SecretsList")
                  /\ UNCHANGED res
    /\ UNCHANGED <<cfgVars, envVars, cacheVars, lockVars, onceVars, nCalls,
                   call, ctxDone, obs, ghostVars, sinceClose>>

\* lines 201-210: the context is checked, then Projects().List(orgID)
refreshCache(p) ==
    /\ pc[p] = "refreshCache"
    /\ IF ctxDone[p]
       THEN Returns(p, Empty, ErrCanceled) /\ UNCHANGED cnt
       ELSE /\ cnt' = [cnt EXCEPT ![p].projectsList = @ + 1]
            /\ \/ Returns(p, Empty, ErrListProjects)
               \/ /\ loc' = [loc EXCEPT ![p].projects = backend.projects]
                  /\ Goto(p, "refreshCache_SecretsList")
                  /\ UNCHANGED res
    /\ UNCHANGED <<cfgVars, envVars, cacheVars, lockVars, onceVars, nCalls,
                   call, ctxDone, obs, ghostVars, sinceClose>>

\* lines 211-222: Secrets().List(orgID) and the IDs of what it lists
refreshCache_SecretsList(p) ==
    /\ pc[p] = "refreshCache_SecretsList"
    /\ cnt' = [cnt EXCEPT ![p].secretsList = @ + 1]
    /\ \/ Returns(p, Empty, ErrListSecrets) /\ UNCHANGED obs
       \/ LET ids == IDsOf(backend.secrets)
          IN  /\ loc' = [loc EXCEPT ![p].ids = ids]
              /\ obs' = [obs EXCEPT ![p].ids =
                            IF Len(ids) > 0 THEN "some" ELSE "empty"]
              /\ IF Len(ids) > 0
                 THEN Goto(p, "refreshCache_GetByIDS")
                 ELSE Goto(p, "refreshCache_Lock")
              /\ UNCHANGED res
    /\ UNCHANGED <<cfgVars, envVars, cacheVars, lockVars, onceVars, nCalls,
                   call, ctxDone, ghostVars, sinceClose>>

\* the project map is stored before the batch fetch is known to succeed
refreshCache_GetByIDS_Partial(p) ==
    /\ pc[p] = "refreshCache_GetByIDS"
    /\ cnt' = [cnt EXCEPT ![p].getByIDS = @ + 1]
    /\ projectByName' = BuildProjectByName(loc[p].projects)
    /\ \/ Returns(p, Empty, ErrGetSecrets)
       \/ /\ loc' = [loc EXCEPT ![p].secrets = RecordsOf(loc[p].ids),
                                ![p].ids = <<>>]
          /\ Goto(p, "refreshCache_Lock")
          /\ UNCHANGED res
    /\ UNCHANGED <<cfgVars, envVars, secretByProj, expiresAt, lockVars,
                   onceVars, nCalls, call, ctxDone, obs, ghostVars,
                   sinceClose>>

\* lines 223-227: Secrets().GetByIDS(ids)
refreshCache_GetByIDS(p) ==
    /\ pc[p] = "refreshCache_GetByIDS"
    /\ cnt' = [cnt EXCEPT ![p].getByIDS = @ + 1]
    /\ \/ Returns(p, Empty, ErrGetSecrets)
       \/ /\ loc' = [loc EXCEPT ![p].secrets = RecordsOf(loc[p].ids),
                                ![p].ids = <<>>]
          /\ Goto(p, "refreshCache_Lock")
          /\ UNCHANGED res
    /\ UNCHANGED <<cfgVars, envVars, cacheVars, lockVars, onceVars, nCalls,
                   call, ctxDone, obs, ghostVars, sinceClose>>

\* line 251
refreshCache_Lock(p) ==
    /\ pc[p] = "refreshCache_Lock"
    /\ CanLock(p)
    /\ writer' = p
    /\ Goto(p, "refreshCache_projectByName")
    /\ UNCHANGED <<cfgVars, envVars, cacheVars, readers, onceVars, nCalls,
                   call, ctxDone, loc, res, cnt, obs, ghostVars, sinceClose>>

\* line 252, with the map built at lines 229-232
refreshCache_projectByName(p) ==
    /\ pc[p] = "refreshCache_projectByName"
    /\ projectByName' = BuildProjectByName(loc[p].projects)
    /\ stamp' = [stamp EXCEPT !.pbn = call[p].id]
    /\ inst' = [inst EXCEPT !.projects = loc[p].projects]
    /\ Goto(p, "refreshCache_secretByProj")
    /\ UNCHANGED <<cfgVars, envVars, secretByProj, expiresAt, lockVars,
                   onceVars, nCalls, call, ctxDone, loc, res, cnt, obs,
                   sinceClose>>

\* line 253, with the map built at lines 234-244
refreshCache_secretByProj(p) ==
    /\ pc[p] = "refreshCache_secretByProj"
    /\ secretByProj' = BuildSecretByProj(loc[p].secrets)
    /\ stamp' = [stamp EXCEPT !.sbp = call[p].id]
    /\ inst' = [inst EXCEPT !.secrets = loc[p].secrets]
    /\ Goto(p, "refreshCache_expiresAt")
    /\ UNCHANGED <<cfgVars, envVars, projectByName, expiresAt, lockVars,
                   onceVars, nCalls, call, ctxDone, loc, res, cnt, obs,
                   sinceClose>>

\* line 254
refreshCache_expiresAt(p) ==
    /\ pc[p] = "refreshCache_expiresAt"
    /\ expiresAt' = clock + cacheTTL
    /\ stamp' = [stamp EXCEPT !.exp = call[p].id]
    /\ obs' = [obs EXCEPT ![p].now = clock]
    /\ Goto(p, "refreshCache_Unlock")
    /\ UNCHANGED <<cfgVars, envVars, projectByName, secretByProj, lockVars,
                   onceVars, nCalls, call, ctxDone, loc, res, cnt, inst,
                   sinceClose>>

\* lines 255-257: the write lock is released and ensureCache returns nil
refreshCache_Unlock(p) ==
    /\ pc[p] = "refreshCache_Unlock"
    /\ writer' = NoProc
    /\ loc' = [loc EXCEPT ![p] = NoLoc]
    /\ obs' = [obs EXCEPT ![p].now = 0]
    /\ Goto(p, "lookup")
    /\ UNCHANGED <<cfgVars, envVars, cacheVars, readers, onceVars, nCalls,
                   call, ctxDone, res, cnt, ghostVars, sinceClose>>

-----------------------------------------------------------------------------
(* resolveByProjectKey, lines 154-178 *)

\* line 154
lookup(p) ==
    /\ pc[p] = "lookup"
    /\ CanRLock(p)
    /\ readers' = readers \cup {p}
    /\ Goto(p, "lookup_projectByName")
    /\ UNCHANGED <<cfgVars, envVars, cacheVars, writer, onceVars, nCalls,
                   call, ctxDone, loc, res, cnt, obs, ghostVars, sinceClose>>

\* lines 155-162
lookup_projectByName(p) ==
    /\ pc[p] = "lookup_projectByName"
    /\ IF Has(projectByName, call[p].projectName)
       THEN /\ loc' = [loc EXCEPT ![p].projectID =
                          projectByName[call[p].projectName]]
            /\ obs' = [obs EXCEPT ![p].pbn = stamp.pbn]
            /\ Goto(p, "lookup_secretByProj")
            /\ UNCHANGED <<res, readers>>
       ELSE /\ readers' = readers \ {p}
            /\ Returns(p, Empty, ErrProjectNotFound)
            /\ UNCHANGED obs
    /\ UNCHANGED <<cfgVars, envVars, cacheVars, writer, onceVars, nCalls,
                   call, ctxDone, cnt, ghostVars, sinceClose>>

\* lines 163-164: a missing project reads as a nil map, a missing key as ""
lookup_secretByProj(p) ==
    /\ pc[p] = "lookup_secretByProj"
    /\ obs' = [obs EXCEPT ![p].sbp = stamp.sbp]
    /\ LET secrets == IF Has(secretByProj, loc[p].projectID)
                      THEN secretByProj[loc[p].projectID]
                      ELSE EmptyMap
           ok == Has(secrets, call[p].keyName)
       IN  loc' = [loc EXCEPT ![p].secretID =
                                 IF ok THEN secrets[call[p].keyName] ELSE Empty,
                              ![p].ok = ok]
    /\ Goto(p, "lookup_RUnlock")
    /\ UNCHANGED <<cfgVars, envVars, cacheVars, lockVars, onceVars, nCalls,
                   call, ctxDone, res, cnt, ghostVars, sinceClose>>

\* the result of the key lookup is not tested
lookup_RUnlock_Unchecked(p) ==
    /\ pc[p] = "lookup_RUnlock"
    /\ readers' = readers \ {p}
    /\ Goto(p, "resolveByProjectKey_Get")
    /\ obs' = [obs EXCEPT ![p].pbn = 0, ![p].sbp = 0]
    /\ UNCHANGED <<cfgVars, envVars, cacheVars, writer, onceVars, nCalls,
                   call, ctxDone, loc, res, cnt, ghostVars, sinceClose>>

\* lines 165-171
lookup_RUnlock(p) ==
    /\ pc[p] = "lookup_RUnlock"
    /\ readers' = readers \ {p}
    /\ IF loc[p].ok
       THEN Goto(p, "resolveByProjectKey_Get") /\ UNCHANGED <<res, loc>>
       ELSE Returns(p, Empty, ErrSecretNotFound)
    /\ obs' = [obs EXCEPT ![p].pbn = 0, ![p].sbp = 0]
    /\ UNCHANGED <<cfgVars, envVars, cacheVars, writer, onceVars, nCalls,
                   call, ctxDone, cnt, ghostVars, sinceClose>>

\* the value is taken from the record of the batch fetch, with no call
resolveByProjectKey_Get_Cached(p) ==
    /\ pc[p] = "resolveByProjectKey_Get"
    /\ \/ Returns(p, Empty, ErrGetSecret)
       \/ \E i \in DOMAIN inst.secrets :
             /\ inst.secrets[i].ID = loc[p].secretID
             /\ Returns(p, inst.secrets[i].Value, "none")
    /\ UNCHANGED <<cfgVars, envVars, cacheVars, lockVars, onceVars, nCalls,
                   call, ctxDone, cnt, obs, ghostVars, sinceClose>>

\* lines 173-177: Secrets().Get(secretID)
resolveByProjectKey_Get(p) ==
    /\ pc[p] = "resolveByProjectKey_Get"
    /\ cnt' = [cnt EXCEPT ![p].get = @ + 1, ![p].getArg = loc[p].secretID]
    /\ \/ Returns(p, Empty, ErrGetSecret)
       \/ \E i \in SecretsOf(loc[p].secretID) :
             Returns(p, backend.secrets[i].Value, "none")
    /\ UNCHANGED <<cfgVars, envVars, cacheVars, lockVars, onceVars, nCalls,
                   call, ctxDone, obs, ghostVars, sinceClose>>

-----------------------------------------------------------------------------
(* Close, lines 114-126.  sync.Once runs the function of its first caller; *)
(* a caller arriving while it runs waits for it to finish, and every       *)
(* caller after that returns at once.                                      *)

Close(p) ==
    /\ pc[p] = "idle"
    /\ nCalls < MaxCalls
    /\ call' = [call EXCEPT ![p] = [NoCall EXCEPT !.op = "Close",
                                                  !.id = nCalls + 1]]
    /\ nCalls' = nCalls + 1
    /\ sinceClose' = (sinceClose \/ onceDone)
    /\ Goto(p, "Close_Do")
    /\ UNCHANGED <<cfgVars, envVars, cacheVars, lockVars, onceVars, ctxDone,
                   loc, res, cnt, obs, ghostVars>>

\* a Once that never remembers it has run
OnceDone_Never == FALSE

\* line 115: p.close.Do
OnceDone == onceDone

Close_Do(p) ==
    /\ pc[p] = "Close_Do"
    /\ IF OnceDone
       THEN Returns(p, Empty, "none") /\ UNCHANGED onceMu
       ELSE /\ onceMu = NoProc
            /\ onceMu' = p
            /\ Goto(p, "Close_client")
            /\ UNCHANGED <<res, loc>>
    /\ UNCHANGED <<cfgVars, envVars, cacheVars, lockVars, onceDone,
                   clientCloses, nClear, nCalls, call, ctxDone, cnt, obs,
                   ghostVars, sinceClose>>

\* lines 116-118
Close_client(p) ==
    /\ pc[p] = "Close_client"
    /\ clientCloses' = clientCloses + 1
    /\ Goto(p, "Close_Lock")
    /\ UNCHANGED <<cfgVars, envVars, cacheVars, lockVars, onceDone, onceMu,
                   nClear, nCalls, call, ctxDone, loc, res, cnt, obs,
                   ghostVars, sinceClose>>

\* line 119
Close_Lock(p) ==
    /\ pc[p] = "Close_Lock"
    /\ CanLock(p)
    /\ writer' = p
    /\ Goto(p, "Close_projectByName")
    /\ UNCHANGED <<cfgVars, envVars, cacheVars, readers, onceVars, nCalls,
                   call, ctxDone, loc, res, cnt, obs, ghostVars, sinceClose>>

\* line 120
Close_projectByName(p) ==
    /\ pc[p] = "Close_projectByName"
    /\ projectByName' = EmptyMap
    /\ stamp' = [stamp EXCEPT !.pbn = call[p].id]
    /\ inst' = [inst EXCEPT !.projects = <<>>]
    /\ Goto(p, "Close_secretByProj")
    /\ UNCHANGED <<cfgVars, envVars, secretByProj, expiresAt, lockVars,
                   onceVars, nCalls, call, ctxDone, loc, res, cnt, obs,
                   sinceClose>>

\* line 121
Close_secretByProj(p) ==
    /\ pc[p] = "Close_secretByProj"
    /\ secretByProj' = EmptyMap
    /\ stamp' = [stamp EXCEPT !.sbp = call[p].id]
    /\ inst' = [inst EXCEPT !.secrets = <<>>]
    /\ Goto(p, "Close_expiresAt")
    /\ UNCHANGED <<cfgVars, envVars, projectByName, expiresAt, lockVars,
                   onceVars, nCalls, call, ctxDone, loc, res, cnt, obs,
                   sinceClose>>

\* Close forgets to zero expiresAt
Close_expiresAt_Kept(p) ==
    /\ pc[p] = "Close_expiresAt"
    /\ nClear' = nClear + 1
    /\ Goto(p, "Close_Unlock")
    /\ UNCHANGED <<cfgVars, envVars, cacheVars, lockVars, onceDone, onceMu,
                   clientCloses, nCalls, call, ctxDone, loc, res, cnt, obs,
                   ghostVars, sinceClose>>

\* line 122
Close_expiresAt(p) ==
    /\ pc[p] = "Close_expiresAt"
    /\ expiresAt' = 0
    /\ stamp' = [stamp EXCEPT !.exp = call[p].id]
    /\ nClear' = nClear + 1
    /\ Goto(p, "Close_Unlock")
    /\ UNCHANGED <<cfgVars, envVars, projectByName, secretByProj, lockVars,
                   onceDone, onceMu, clientCloses, nCalls, call, ctxDone, loc,
                   res, cnt, obs, inst, sinceClose>>

\* lines 123-125: the write lock is released, the Once is done, Close returns
Close_Unlock(p) ==
    /\ pc[p] = "Close_Unlock"
    /\ writer' = NoProc
    /\ onceDone' = TRUE
    /\ onceMu' = NoProc
    /\ sinceClose' = FALSE
    /\ Returns(p, Empty, "none")
    /\ UNCHANGED <<cfgVars, envVars, cacheVars, readers, clientCloses, nClear,
                   nCalls, call, ctxDone, cnt, obs, ghostVars>>

-----------------------------------------------------------------------------
(* The callers and the environment *)

\* the caller takes the result; the goroutine may start another invocation
Return(p) ==
    /\ pc[p] = "ret"
    /\ pc' = [pc EXCEPT ![p] = "idle"]
    /\ call' = [call EXCEPT ![p] = NoCall]
    /\ ctxDone' = [ctxDone EXCEPT ![p] = FALSE]
    /\ res' = [res EXCEPT ![p] = NoRes]
    /\ cnt' = [cnt EXCEPT ![p] = NoCnt]
    /\ obs' = [obs EXCEPT ![p] = NoObs]
    /\ UNCHANGED <<cfgVars, envVars, cacheVars, lockVars, onceVars, nCalls,
                   loc, ghostVars, sinceClose>>

\* the caller cancels the context of a Resolve in flight
Cancel(p) ==
    /\ call[p].op = "Resolve"
    /\ pc[p] \notin {"idle", "ret"}
    /\ ~ctxDone[p]
    /\ ctxDone' = [ctxDone EXCEPT ![p] = TRUE]
    /\ UNCHANGED <<cfgVars, envVars, cacheVars, lockVars, onceVars, nCalls,
                   pc, call, loc, res, cnt, obs, ghostVars, sinceClose>>

\* the injected clock advances
Tick ==
    /\ clock < MaxClock
    /\ clock' = clock + 1
    /\ UNCHANGED <<cfgVars, backend, nChanges, cacheVars, lockVars, onceVars,
                   nCalls, pc, call, ctxDone, loc, res, cnt, obs, ghostVars,
                   sinceClose>>

\* projects and secrets are created, renamed and deleted in the backend
BackendChange ==
    /\ nChanges < MaxChanges
    /\ \E b \in Backends \ {backend} : backend' = b
    /\ nChanges' = nChanges + 1
    /\ UNCHANGED <<cfgVars, clock, cacheVars, lockVars, onceVars, nCalls,
                   pc, call, ctxDone, loc, res, cnt, obs, ghostVars,
                   sinceClose>>

\* what a goroutine does next
Step(p) ==
    \/ Resolve_Get(p)
    \/ ensureCache(p)
    \/ ensureCache_check(p)
    \/ refreshCache(p)
    \/ refreshCache_SecretsList(p)
    \/ refreshCache_GetByIDS(p)
    \/ refreshCache_Lock(p)
    \/ refreshCache_projectByName(p)
    \/ refreshCache_secretByProj(p)
    \/ refreshCache_expiresAt(p)
    \/ refreshCache_Unlock(p)
    \/ lookup(p)
    \/ lookup_projectByName(p)
    \/ lookup_secretByProj(p)
    \/ lookup_RUnlock(p)
    \/ resolveByProjectKey_Get(p)
    \/ Close(p)
    \/ Close_Do(p)
    \/ Close_client(p)
    \/ Close_Lock(p)
    \/ Close_projectByName(p)
    \/ Close_secretByProj(p)
    \/ Close_expiresAt(p)
    \/ Close_Unlock(p)
    \/ Return(p)

\* Two goroutines call Resolve and Close concurrently, with contexts that
\* are not cancelled, while the clock advances; what the backend holds is
\* any of Backends and stays as it is.
Next ==
    \/ \E p \in Procs, ref \in Refs : Resolve(p, ref, FALSE)
    \/ \E p \in Procs : Step(p)
    \/ Tick

Spec == Init /\ [][Next]_vars

\* One goroutine calls Resolve and Close, one call after the other, with
\* contexts that are cancelled before or during the call, while the clock
\* advances and the backend changes.
Solo == "g1"

NextSeq ==
    \/ \E ref \in Refs, done \in BOOLEAN : Resolve(Solo, ref, done)
    \/ Step(Solo)
    \/ Cancel(Solo)
    \/ Tick
    \/ BackendChange

SpecSeq == Init /\ [][NextSeq]_vars

\* One goroutine calls Resolve, as its first call, with any reference of
\* ParseRefs, on a provider that has an organization ID and a TTL, and Close.
InitParse ==
    /\ Init
    /\ orgID = S("org")
    /\ cacheTTL = 1
    /\ backend = BackendOne

NextParse ==
    \/ nCalls = 0 /\ \E ref \in ParseRefs : Resolve(Solo, ref, FALSE)
    \/ Step(Solo)

SpecParse == InitParse /\ [][NextParse]_vars

\* Two goroutines resolve the same project/key reference, one call for each
\* goroutine of Procs, on a provider that has an organization ID, while the
\* clock advances and the backend changes.
InitRace ==
    /\ Init
    /\ orgID = S("org")
    /\ backend = BackendOne

ResolveStep(p) ==
    \/ ensureCache(p)
    \/ ensureCache_check(p)
    \/ refreshCache(p)
    \/ refreshCache_SecretsList(p)
    \/ refreshCache_GetByIDS(p)
    \/ refreshCache_Lock(p)
    \/ refreshCache_projectByName(p)
    \/ refreshCache_secretByProj(p)
    \/ refreshCache_expiresAt(p)
    \/ refreshCache_Unlock(p)
    \/ lookup(p)
    \/ lookup_projectByName(p)
    \/ lookup_secretByProj(p)
    \/ lookup_RUnlock(p)
    \/ resolveByProjectKey_Get(p)
    \/ Return(p)

NextRace ==
    \/ \E p \in Procs :
          nCalls < Cardinality(Procs) /\ Resolve(p, RefProjectKey, FALSE)
    \/ \E p \in Procs : ResolveStep(p)
    \/ Tick
    \/ BackendChange

SpecRace == InitRace /\ [][NextRace]_vars

-----------------------------------------------------------------------------
(* What the claims speak of *)

\* p runs, or has just returned from, Resolve of a project/key reference
ProjectKeyCall(p) == call[p].op = "Resolve" /\ call[p].projectName # Empty

\* the string is empty or holds whitespace only
Blank(s) == \A i \in DOMAIN s : s[i] = Space

\* t is s without the whitespace at its two ends
IsTrimOf(t, s) ==
    /\ t # <<>>
    /\ Head(t) # Space
    /\ t[Len(t)] # Space
    /\ \E i \in 0..Len(s), j \in 0..Len(s) :
          /\ i <= j
          /\ t = SubSeq(s, i + 1, j)
          /\ \A x \in 1..i : s[x] = Space
          /\ \A x \in (j + 1)..Len(s) : s[x] = Space

\* p runs, or has just returned from, Resolve of a direct ID
DirectCall(p) ==
    /\ call[p].op = "Resolve"
    /\ call[p].projectName = Empty
    /\ ~Blank(call[p].ref)

CacheEmpty ==
    projectByName = EmptyMap /\ secretByProj = EmptyMap /\ expiresAt = 0

\* the refresh of p made its three calls and none failed
RefreshDone(p) ==
    /\ cnt[p].projectsList = 1
    /\ cnt[p].secretsList = 1
    /\ cnt[p].getByIDS = (IF obs[p].ids = "some" THEN 1 ELSE 0)

NoRefresh(p) ==
    cnt[p].projectsList = 0 /\ cnt[p].secretsList = 0 /\ cnt[p].getByIDS = 0

\* the lookup of p found a secret ID and Secrets().Get was called with it
Looked(p) == pc[p] = "ret" /\ res[p].err \in {"none", ErrGetSecret}

-----------------------------------------------------------------------------
(* C1: with ttl > 0 and an organization ID, a project/key Resolve that     *)
(* finds the cache empty issues exactly one Projects.List, one             *)
(* Secrets.List and one Secrets.GetByIDS before its lookup succeeds; one   *)
(* that finds the cache populated and the clock before expiresAt issues    *)
(* none of the three and exactly one Secrets.Get, with the secret ID the   *)
(* cache holds for the reference.  (One goroutine, so the snapshot at the  *)
(* return is the one the lookup read.)                                     *)
C1_FirstRefreshesSecondHits ==
    \A p \in Procs :
        (ProjectKeyCall(p) /\ cacheTTL > 0 /\ Looked(p)) =>
            /\ obs[p].check = "empty" =>
                  /\ cnt[p].projectsList = 1
                  /\ cnt[p].secretsList = 1
                  /\ cnt[p].getByIDS = 1
                  /\ cnt[p].get = 1
            /\ obs[p].check = "fresh" =>
                  /\ NoRefresh(p)
                  /\ cnt[p].get = 1
                  /\ Has(projectByName, call[p].projectName)
                  /\ LET projectID == projectByName[call[p].projectName]
                     IN  /\ Has(secretByProj, projectID)
                         /\ Has(secretByProj[projectID], call[p].keyName)
                         /\ cnt[p].getArg =
                               secretByProj[projectID][call[p].keyName]

\* the second invocation is a Resolve served from the cache
C1_Witness ==
    /\ pc[Solo] = "ret"
    /\ call[Solo].id = 2
    /\ ProjectKeyCall(Solo)
    /\ obs[Solo].check = "fresh"
    /\ res[Solo].err = "none"
    /\ cnt[Solo].get = 1
    /\ NoRefresh(Solo)

(* C2: with ttl > 0, a project/key Resolve that finds the cache populated  *)
(* and the clock at or past expiresAt runs exactly one refresh cycle: one  *)
(* Projects.List, one Secrets.List and, unless no secret is listed, one    *)
(* Secrets.GetByIDS; and the swap of a refresh leaves expiresAt at the     *)
(* clock value it read plus ttl.                                           *)
C2_RefreshAfterExpiry ==
    \A p \in Procs :
        /\ (/\ ProjectKeyCall(p)
            /\ cacheTTL > 0
            /\ obs[p].check = "expired"
            /\ pc[p] = "ret"
            /\ res[p].err \in {"none", ErrGetSecret, ErrProjectNotFound,
                               ErrSecretNotFound})
              => RefreshDone(p)
        /\ (pc[p] = "refreshCache_Unlock" /\ cacheTTL > 0) =>
              /\ expiresAt = obs[p].now + cacheTTL
              /\ obs[p].now <= clock
              /\ obs[p].now > 0

\* a Resolve found the snapshot expired, refreshed it, and returned a value
C2_Witness ==
    /\ pc[Solo] = "ret"
    /\ ProjectKeyCall(Solo)
    /\ obs[Solo].check = "expired"
    /\ res[Solo].err = "none"
    /\ cnt[Solo].projectsList = 1
    /\ cnt[Solo].getByIDS = 1
    /\ expiresAt > clock
    /\ clock > 1 + cacheTTL

(* C3: when the organization ID is empty or whitespace only, a Resolve of  *)
(* a project/key reference returns the organization-required error in its  *)
(* first step, having issued no backend call, and leaves both maps and     *)
(* expiresAt as they were.                                                 *)
C3_OrgRequired ==
    [][\A p \in Procs :
          (/\ pc[p] = "idle"
           /\ call'[p].op = "Resolve"
           /\ call'[p].projectName # Empty
           /\ Blank(orgID))
             => /\ pc'[p] = "ret"
                /\ res'[p].err = ErrOrgRequired
                /\ cnt'[p] = NoCnt
                /\ UNCHANGED cacheVars]_vars

\* a project/key Resolve has failed for want of an organization ID
C3_Witness ==
    \E p \in Procs :
        /\ pc[p] = "ret"
        /\ ProjectKeyCall(p)
        /\ Blank(orgID)
        /\ res[p].err = ErrOrgRequired
        /\ cnt[p] = NoCnt

(* C4, as claimed: every Resolve of a direct ID calls Secrets.Get exactly  *)
(* once, with the trimmed reference, and never Projects.List, Secrets.List *)
(* or Secrets.GetByIDS.                                                    *)
C4_DirectAlwaysGets ==
    \A p \in Procs :
        (DirectCall(p) /\ pc[p] = "ret") =>
            /\ cnt[p].get = 1
            /\ IsTrimOf(cnt[p].getArg, call[p].ref)
            /\ NoRefresh(p)

(* C4, amended: a Resolve of a direct ID whose context is not cancelled    *)
(* when it is checked calls Secrets.Get exactly once, with the trimmed     *)
(* reference; one whose context is cancelled returns the cancellation      *)
(* error and calls nothing; neither calls Projects.List, Secrets.List or   *)
(* Secrets.GetByIDS, and no step of either changes the snapshot.           *)
C4_DirectGetsUnlessCancelled ==
    /\ [](\A p \in Procs :
            (DirectCall(p) /\ pc[p] = "ret") =>
                /\ NoRefresh(p)
                /\ res[p].err = ErrCanceled => cnt[p] = NoCnt
                /\ res[p].err # ErrCanceled =>
                      /\ cnt[p].get = 1
                      /\ IsTrimOf(cnt[p].getArg, call[p].ref))
    /\ [][\A p \in Procs :
            (call'[p].op = "Resolve" /\ call'[p].projectName = Empty
             /\ pc'[p] # pc[p])
               => UNCHANGED cacheVars]_vars

\* a direct ID, given with whitespace around it, was fetched while the cache
\* was populated
C4_Witness ==
    /\ pc[Solo] = "ret"
    /\ DirectCall(Solo)
    /\ call[Solo].ref # TrimSpace(call[Solo].ref)
    /\ res[Solo].err = "none"
    /\ cnt[Solo].get = 1
    /\ projectByName # EmptyMap

(* C5: when Projects.List, Secrets.List or Secrets.GetByIDS fails, the     *)
(* refresh returns an error and leaves projectByName, secretByProj and     *)
(* expiresAt as they were; and whoever writes the snapshot during a        *)
(* refresh has made all its calls without a failure.                       *)
C5_RefreshAllOrNothing ==
    /\ [](\A p \in Procs :
            (writer = p /\ call[p].op = "Resolve") => RefreshDone(p))
    /\ [][\A p \in Procs :
            (/\ pc[p] \in {"refreshCache", "refreshCache_SecretsList",
                           "refreshCache_GetByIDS"}
             /\ pc'[p] # pc[p])
               => /\ UNCHANGED cacheVars
                  /\ pc'[p] = "ret" =>
                        res'[p].err \in {ErrCanceled, ErrListProjects,
                                         ErrListSecrets, ErrGetSecrets}]_vars

\* the batch fetch of a refresh failed while an earlier snapshot was installed
C5_Witness ==
    \E p \in Procs :
        /\ pc[p] = "ret"
        /\ res[p].err = ErrGetSecrets
        /\ projectByName # EmptyMap
        /\ secretByProj # EmptyMap
        /\ stamp.pbn # call[p].id

(* C6: the lookup of a project/key Resolve reads projectByName and         *)
(* secretByProj as written by the same invocation, whatever refreshes and  *)
(* Close run beside it; while nobody holds the write lock the two maps and *)
(* expiresAt are those of one invocation, and nobody reads while another   *)
(* writes.                                                                 *)
C6_LookupReadsOneSnapshot ==
    /\ \A p \in Procs : pc[p] = "lookup_RUnlock" => obs[p].pbn = obs[p].sbp
    /\ writer = NoProc => (stamp.pbn = stamp.sbp /\ stamp.sbp = stamp.exp)
    /\ writer # NoProc => readers = {}

\* a lookup has read both maps while another goroutine waits to replace them
C6_Witness ==
    \E p \in Procs, q \in Procs :
        /\ pc[p] = "lookup_RUnlock"
        /\ obs[p].pbn > 0
        /\ loc[p].ok
        /\ pc[q] \in {"refreshCache_Lock", "Close_Lock"}

(* C7: a Resolve called with a context that is already cancelled issues no *)
(* backend call and returns an error.                                      *)
C7_CancelledIssuesNoCall ==
    \A p \in Procs :
        (call[p].op = "Resolve" /\ call[p].ctx) =>
            /\ cnt[p] = NoCnt
            /\ pc[p] = "ret" => res[p].err # "none"

(* C8, as claimed: once Close has returned the snapshot is empty, also     *)
(* when a Resolve was in flight while Close ran (until an invocation       *)
(* started after Close refreshes it).                                      *)
C8_EmptyAfterClose == (onceDone /\ ~sinceClose) => CacheEmpty

(* C8, amended: the first Close leaves both maps empty and expiresAt zero  *)
(* when it releases the write lock, and a project/key Resolve that finds   *)
(* projectByName empty performs a full refresh before its lookup; a        *)
(* refresh in flight while Close ran, or one started later, installs a new *)
(* snapshot after Close, from which later Resolves are served.             *)
C8_CloseClearsThenRefresh ==
    \A p \in Procs :
        /\ pc[p] = "Close_Unlock" => CacheEmpty
        /\ (/\ ProjectKeyCall(p)
            /\ obs[p].check = "empty"
            /\ pc[p] \in {"lookup", "lookup_projectByName",
                          "lookup_secretByProj", "lookup_RUnlock",
                          "resolveByProjectKey_Get"})
              => RefreshDone(p)

\* Close has cleared a snapshot that a Resolve, now returned, had installed
\* or used
C8_Witness ==
    \E p \in Procs, q \in Procs :
        /\ pc[p] = "Close_Unlock"
        /\ pc[q] = "ret"
        /\ ProjectKeyCall(q)
        /\ res[q].err = "none"
        /\ cacheTTL > 0
        /\ CacheEmpty

(* C9: whatever the number of Close invocations, one after the other or    *)
(* together, the client is closed once and the snapshot cleared once, by   *)
(* the first; every Close returns nil, and returns only once both are      *)
(* done; a Close that runs after that changes neither the snapshot nor     *)
(* the client.                                                             *)
C9_CloseIdempotent ==
    /\ [](/\ clientCloses <= 1
          /\ nClear <= 1
          /\ \A p \in Procs :
                (call[p].op = "Close" /\ pc[p] = "ret") =>
                    /\ res[p].err = "none"
                    /\ onceDone
                    /\ clientCloses = 1
                    /\ nClear = 1)
    /\ [][\A p \in Procs :
            (call[p].op = "Close" /\ onceDone /\ pc'[p] # pc[p])
               => UNCHANGED <<cacheVars, clientCloses, nClear, onceDone,
                              onceMu, lockVars>>]_vars

\* two Close invocations have returned
C9_Witness ==
    /\ \A p \in Procs : call[p].op = "Close" /\ pc[p] = "ret"
    /\ clientCloses = 1
    /\ nClear = 1

(* C10, as claimed: while nobody writes the snapshot, every project ID     *)
(* that keys secretByProj is a value of projectByName.                     *)
C10_SecretProjectsAreListed ==
    writer = NoProc => DOMAIN secretByProj \subseteq Range(projectByName)

\* the project names of a Projects.List response
NamesOf(projects) == {projects[i].Name : i \in DOMAIN projects}

(* C10, amended: while nobody writes the snapshot, it is empty or both     *)
(* maps were installed by the same refresh: projectByName maps exactly the *)
(* names of the project list of that refresh, each to an ID listed under   *)
(* that name, and secretByProj is keyed by exactly the project IDs carried *)
(* by the batch records of that refresh, each secret ID filed under the    *)
(* project and key of its record.  A project ID that keys secretByProj     *)
(* need not be a value of projectByName, nor be in the project list.       *)
C10_SnapshotOfOneRefresh ==
    writer = NoProc =>
        /\ stamp.pbn = stamp.sbp
        /\ DOMAIN projectByName = NamesOf(inst.projects)
        /\ \A n \in DOMAIN projectByName :
              \E i \in DOMAIN inst.projects :
                  /\ inst.projects[i].Name = n
                  /\ inst.projects[i].ID = projectByName[n]
        /\ DOMAIN secretByProj =
              {inst.secrets[i].ProjectID[1] :
                  i \in {j \in DOMAIN inst.secrets :
                            inst.secrets[j].ProjectID # NilProject}}
        /\ \A projectID \in DOMAIN secretByProj :
              \A k \in DOMAIN secretByProj[projectID] :
                  \E i \in DOMAIN inst.secrets :
                      /\ inst.secrets[i].ProjectID = <<projectID>>
                      /\ inst.secrets[i].Key = k
                      /\ inst.secrets[i].ID = secretByProj[projectID][k]

\* a snapshot whose secretByProj is keyed by a project that projectByName
\* does not name
C10_Witness ==
    /\ writer = NoProc
    /\ \E projectID \in DOMAIN secretByProj :
          projectID \notin Range(projectByName)
    /\ \E r \in {inst.secrets[i] : i \in DOMAIN inst.secrets} :
          r.ProjectID = NilProject

-----------------------------------------------------------------------------
\* p holds the lock of the cache, for reading or for writing
Holds(p) == writer = p \/ p \in readers

\* where the next step of a goroutine is a call of the backend
BackendCallPcs ==
    {"Resolve_Get", "refreshCache", "refreshCache_SecretsList",
     "refreshCache_GetByIDS", "resolveByProjectKey_Get", "Close_client"}

\* where the next step of a goroutine takes the read lock
RLockPcs == {"ensureCache", "lookup"}

(* C11: a goroutine about to call the backend, and one that issues a call, *)
(* holds the cache lock neither for reading nor for writing; the write     *)
(* lock is held only over the three assignments of a swap or of Close; and *)
(* while one goroutine is in a backend call, another that is about to read *)
(* the cache can take the read lock.                                       *)
C11_NoCallUnderLock ==
    /\ [](\A p \in Procs :
            /\ pc[p] \in BackendCallPcs => ~Holds(p)
            /\ writer = p =>
                  pc[p] \in {"refreshCache_projectByName",
                             "refreshCache_secretByProj",
                             "refreshCache_expiresAt", "refreshCache_Unlock",
                             "Close_projectByName", "Close_secretByProj",
                             "Close_expiresAt", "Close_Unlock"}
            /\ \A q \in Procs \ {p} :
                  (pc[p] \in BackendCallPcs /\ pc[q] \in RLockPcs)
                     => CanRLock(q))
    /\ [][\A p \in Procs :
            (cnt'[p] # cnt[p] /\ cnt'[p] # NoCnt)
               => (~Holds(p) /\ ~Holds(p)')]_vars

\* one goroutine is in the batch fetch of its refresh while the other reads,
\* under the read lock, a snapshot that has not expired
C11_Witness ==
    \E p \in Procs, q \in Procs :
        /\ pc[p] = "refreshCache_GetByIDS"
        /\ pc[q] = "lookup_secretByProj"
        /\ q \in readers
        /\ cacheTTL > 0
        /\ clock < expiresAt

(* C12: the snapshot holds secret IDs, not values; a project/key Resolve   *)
(* that returns a value has called Secrets.Get exactly once, with the      *)
(* secret ID its lookup found, and the value it returns is the one the     *)
(* backend holds for that ID at the time of the call, whatever value the   *)
(* record of the batch fetch carried.                                      *)
C12_ValueFromLiveGet ==
    /\ [](/\ \A p \in Procs :
                (ProjectKeyCall(p) /\ pc[p] = "ret" /\ res[p].err = "none")
                   => cnt[p].get = 1
          /\ writer = NoProc =>
                \A projectID \in DOMAIN secretByProj :
                    \A k \in DOMAIN secretByProj[projectID] :
                        \E i \in DOMAIN inst.secrets :
                            inst.secrets[i].ID = secretByProj[projectID][k])
    /\ [][\A p \in Procs :
            (/\ pc[p] = "resolveByProjectKey_Get"
             /\ pc'[p] = "ret"
             /\ res'[p].err = "none")
               => /\ cnt'[p].get = cnt[p].get + 1
                  /\ cnt'[p].getArg = loc[p].secretID
                  /\ \E i \in DOMAIN backend.secrets :
                        /\ backend.secrets[i].ID = loc[p].secretID
                        /\ backend.secrets[i].Value = res'[p].value]_vars

\* a Resolve served from the cache, with no refresh, returned a value that
\* differs from the one the installed batch record carries
C12_Witness ==
    /\ pc[Solo] = "ret"
    /\ ProjectKeyCall(Solo)
    /\ res[Solo].err = "none"
    /\ obs[Solo].check = "fresh"
    /\ NoRefresh(Solo)
    /\ \E i \in DOMAIN inst.secrets :
          /\ inst.secrets[i].ID = cnt[Solo].getArg
          /\ inst.secrets[i].Value # res[Solo].value

\* the string holds no separator
SlashFree(s) == \A i \in DOMAIN s : s[i] # Slash

\* t is project/<projectName>/key/<keyName>, two non-empty names with no
\* separator in them
ProjectKeyShape(t, projectName, keyName) ==
    /\ projectName # Empty
    /\ keyName # Empty
    /\ SlashFree(projectName)
    /\ SlashFree(keyName)
    /\ t = <<"project", Slash>> \o projectName \o <<Slash, "key", Slash>>
             \o keyName

HasShape(t) ==
    \E i \in 1..(Len(t) - 6) :
        ProjectKeyShape(t, SubSeq(t, 3, 2 + i), SubSeq(t, 6 + i, Len(t)))

(* C13: for every reference that is not empty after trimming, the parser   *)
(* yields the project/key form exactly when the trimmed string is          *)
(* "project", a non-empty name, "key" and a non-empty name, separated by   *)
(* three "/", and then the two names are what it yields; every other       *)
(* reference is resolved as a direct ID: no refresh, no lookup, and        *)
(* Secrets.Get is called with the whole trimmed string.                    *)
C13_ParseTotal ==
    \A p \in Procs :
        (call[p].op = "Resolve" /\ ~Blank(call[p].ref)) =>
            LET t == TrimSpace(call[p].ref)
            IN  IF HasShape(t)
                THEN /\ ProjectKeyShape(t, call[p].projectName,
                                        call[p].keyName)
                     /\ pc[p] # "Resolve_Get"
                     /\ cnt[p].get = 1 => cnt[p].getArg # t
                ELSE /\ call[p].projectName = Empty
                     /\ call[p].keyName = Empty
                     /\ pc[p] \in {"Resolve_Get", "ret"}
                     /\ NoRefresh(p)
                     /\ cnt[p].get = 1 => cnt[p].getArg = t
                     /\ pc[p] = "ret" => cnt[p].get = 1

\* a reference of five segments that begins like a project/key reference and
\* ends in whitespace was fetched as a direct ID
C13_Witness ==
    /\ pc[Solo] = "ret"
    /\ call[Solo].op = "Resolve"
    /\ cnt[Solo].get = 1
    /\ cnt[Solo].getArg = <<"project", Slash, "a", Slash, "key", Slash, "k",
                            Slash>>
    /\ call[Solo].ref = cnt[Solo].getArg \o <<Space>>

(* C14: a Resolve whose reference is empty or whitespace only returns the  *)
(* empty-reference error in its first step, whatever the snapshot, the     *)
(* TTL, the organization ID and the state of its context; it issues no     *)
(* backend call, takes no lock and leaves the snapshot as it was.          *)
C14_EmptyRefFails ==
    /\ [](\A p \in Procs :
            (call[p].op = "Resolve" /\ Blank(call[p].ref)) =>
                /\ pc[p] = "ret"
                /\ res[p] = [err |-> ErrEmptyRef, value |-> Empty]
                /\ cnt[p] = NoCnt
                /\ ~Holds(p))
    /\ [][\A p \in Procs :
            (pc[p] = "idle" /\ call'[p].op = "Resolve" /\ Blank(call'[p].ref))
               => UNCHANGED <<cacheVars, lockVars>>]_vars

\* a whitespace-only reference was refused, with a cancelled context, while
\* the snapshot was populated and had not expired
C14_Witness ==
    /\ pc[Solo] = "ret"
    /\ call[Solo].op = "Resolve"
    /\ call[Solo].ref = RefBlank
    /\ call[Solo].ctx
    /\ res[Solo].err = ErrEmptyRef
    /\ projectByName # EmptyMap
    /\ clock < expiresAt

\* where a Resolve is once its cache is ensured
LookupPcs ==
    {"lookup", "lookup_projectByName", "lookup_secretByProj",
     "lookup_RUnlock", "resolveByProjectKey_Get"}

(* C15: with ttl <= 0 ensureCache goes to the refresh without reading the  *)
(* snapshot, so every Resolve that reaches its lookup has refreshed; with  *)
(* ttl > 0 it reads the snapshot under the read lock and skips the refresh *)
(* exactly when the clock is strictly before expiresAt and projectByName   *)
(* is non-empty, and goes to the refresh otherwise.                        *)
C15_EnsureCacheDecision ==
    /\ [](\A p \in Procs :
            (cacheTTL <= 0 /\ pc[p] \in LookupPcs) => RefreshDone(p))
    /\ [][\A p \in Procs :
            /\ (pc[p] = "ensureCache" /\ pc'[p] # pc[p]) =>
                  /\ cacheTTL <= 0 =>
                        pc'[p] = "refreshCache" /\ UNCHANGED lockVars
                  /\ cacheTTL > 0 => pc'[p] = "ensureCache_check"
            /\ (pc[p] = "ensureCache_check" /\ pc'[p] # pc[p]) =>
                  /\ pc'[p] = (IF clock < expiresAt /\ projectByName # EmptyMap
                               THEN "lookup" ELSE "refreshCache")
                  /\ cnt'[p] = NoCnt
                  /\ UNCHANGED cacheVars]_vars

\* a Resolve found a populated snapshot at the very instant of its expiry and
\* is about to refresh
C15_Witness ==
    \E p \in Procs :
        /\ pc[p] = "refreshCache"
        /\ obs[p].check = "expired"
        /\ clock = expiresAt
        /\ projectByName # EmptyMap
        /\ writer = NoProc

\* the Resolve of p found the snapshot stale
Stale(p) == obs[p].check \in {"always", "empty", "expired"}

(* C16: when Resolves refresh concurrently, each swap runs alone: at the   *)
(* moment a refresh releases the write lock, both maps are the ones it     *)
(* built from its own responses and expiresAt is the clock value it read   *)
(* plus ttl; the snapshot changes only under the write lock, so between    *)
(* swaps it stays, as a whole, what the last swap installed.               *)
C16_LastSwapWins ==
    /\ [](/\ \A p \in Procs :
                pc[p] = "refreshCache_Unlock" =>
                    /\ writer = p
                    /\ projectByName = BuildProjectByName(loc[p].projects)
                    /\ secretByProj = BuildSecretByProj(loc[p].secrets)
                    /\ expiresAt = obs[p].now + cacheTTL
                    /\ stamp = [pbn |-> call[p].id, sbp |-> call[p].id,
                                exp |-> call[p].id]
          /\ writer = NoProc => (stamp.pbn = stamp.exp /\ stamp.sbp = stamp.exp))
    /\ [][(writer = NoProc /\ writer' = NoProc)
             => UNCHANGED <<cacheVars, ghostVars>>]_vars

\* two Resolves found the snapshot stale and refreshed with different
\* responses; one has swapped and the other waits to overwrite
C16_Witness ==
    \E p \in Procs, q \in Procs :
        /\ pc[p] = "refreshCache_Unlock"
        /\ pc[q] = "refreshCache_Lock"
        /\ Stale(p)
        /\ Stale(q)
        /\ loc[p].projects # loc[q].projects
        /\ loc[p].secrets # loc[q].secrets

\* the backend calls of an invocation: n1 Projects.List, n2 Secrets.List,
\* n3 Secrets.GetByIDS and n4 Secrets.Get
Issued(p, n1, n2, n3, n4) ==
    /\ cnt[p].projectsList = n1
    /\ cnt[p].secretsList = n2
    /\ cnt[p].getByIDS = n3
    /\ cnt[p].get = n4

(* C17: a Resolve issues each of Projects.List, Secrets.List,              *)
(* Secrets.GetByIDS and Secrets.Get at most once; when one of them fails   *)
(* the Resolve returns the error of that call having issued no call after  *)
(* it, a Resolve that fails otherwise has issued no Secrets.Get, and a     *)
(* Resolve that has returned issues nothing more.                          *)
C17_NoRetry ==
    /\ [](\A p \in Procs :
            /\ cnt[p].projectsList <= 1
            /\ cnt[p].secretsList <= 1
            /\ cnt[p].getByIDS <= 1
            /\ cnt[p].get <= 1
            /\ (call[p].op = "Resolve" /\ pc[p] = "ret") =>
                  /\ res[p].err = ErrListProjects => Issued(p, 1, 0, 0, 0)
                  /\ res[p].err = ErrListSecrets => Issued(p, 1, 1, 0, 0)
                  /\ res[p].err = ErrGetSecrets => Issued(p, 1, 1, 1, 0)
                  /\ res[p].err \in {ErrGetSecret, "none"} => cnt[p].get = 1
                  /\ res[p].err \in {ErrEmptyRef, ErrOrgRequired, ErrCanceled}
                        => cnt[p] = NoCnt
                  /\ res[p].err \in {ErrProjectNotFound, ErrSecretNotFound}
                        => cnt[p].get = 0)
    /\ [][\A p \in Procs :
            pc[p] = "ret" => (cnt'[p] = cnt[p] \/ cnt'[p] = NoCnt)]_vars

\* the refresh of an expired snapshot failed at Secrets.List and the Resolve
\* returned that error
C17_Witness ==
    /\ pc[Solo] = "ret"
    /\ ProjectKeyCall(Solo)
    /\ obs[Solo].check = "expired"
    /\ res[Solo].err = ErrListSecrets
    /\ Issued(Solo, 1, 1, 0, 0)

\* the key is not filed under the project that the snapshot names
KeyAbsent(projectName, keyName) ==
    LET projectID == projectByName[projectName]
    IN  \/ projectID \notin DOMAIN secretByProj
        \/ keyName \notin DOMAIN secretByProj[projectID]

(* C18: in the lookup of a project/key Resolve, a project name that        *)
(* projectByName does not hold ends the Resolve with the project-not-found *)
(* error, and a key that is not filed under the project, also when nothing *)
(* is filed under it, ends it with the secret-not-found error; in both     *)
(* cases no Secrets.Get is issued and the read lock is released, and no    *)
(* step of the lookup changes the snapshot.                                *)
C18_LookupNotFound ==
    /\ [](\A p \in Procs :
            (/\ pc[p] = "ret"
             /\ res[p].err \in {ErrProjectNotFound, ErrSecretNotFound})
               => (cnt[p].get = 0 /\ ~Holds(p)))
    /\ [][\A p \in Procs :
            /\ (pc[p] \in LookupPcs /\ pc'[p] # pc[p]) =>
                  UNCHANGED cacheVars
            /\ (pc[p] = "lookup_projectByName" /\ pc'[p] # pc[p]) =>
                  IF call[p].projectName \in DOMAIN projectByName
                  THEN pc'[p] = "lookup_secretByProj"
                  ELSE /\ pc'[p] = "ret"
                       /\ res'[p].err = ErrProjectNotFound
                       /\ cnt'[p] = cnt[p]
                       /\ ~Holds(p)'
            /\ (pc[p] = "lookup_RUnlock" /\ pc'[p] # pc[p]) =>
                  /\ ~Holds(p)'
                  /\ IF KeyAbsent(call[p].projectName, call[p].keyName)
                     THEN /\ pc'[p] = "ret"
                          /\ res'[p].err = ErrSecretNotFound
                          /\ cnt'[p] = cnt[p]
                     ELSE pc'[p] = "resolveByProjectKey_Get"]_vars

\* a Resolve did not find its key under a project that holds no secret
C18_Witness ==
    \E p \in Procs :
        /\ pc[p] = "ret"
        /\ res[p].err = ErrSecretNotFound
        /\ call[p].projectName \in DOMAIN projectByName
        /\ projectByName[call[p].projectName] \notin DOMAIN secretByProj
        /\ cnt[p].get = 0
        /\ readers = {}

\* the largest index of a non-empty set of indices
Last(indices) == CHOOSE i \in indices : \A j \in indices : j <= i

\* the records of a batch response that belong to a project
Filed(secrets) ==
    {i \in DOMAIN secrets : secrets[i].ProjectID # NilProject}

(* C19: when a refresh has written the snapshot and is about to release    *)
(* the write lock, projectByName holds exactly the names of its project    *)
(* list, each mapped to the ID of the last project listed under that name; *)
(* secretByProj holds exactly the project IDs and keys of the batch        *)
(* records that have a project ID, each mapped to the ID of the last such  *)
(* record; and when Secrets.List returned nothing, Secrets.GetByIDS was    *)
(* not called and secretByProj is empty.                                   *)
C19_InstalledMaps ==
    \A p \in Procs :
        pc[p] = "refreshCache_Unlock" =>
            LET projects == loc[p].projects
                secrets == loc[p].secrets
            IN  /\ DOMAIN projectByName = NamesOf(projects)
                /\ \A n \in DOMAIN projectByName :
                      projectByName[n] =
                          projects[Last({i \in DOMAIN projects :
                                            projects[i].Name = n})].ID
                /\ DOMAIN secretByProj =
                      {secrets[i].ProjectID[1] : i \in Filed(secrets)}
                /\ \A projectID \in DOMAIN secretByProj :
                      LET of == {i \in Filed(secrets) :
                                    secrets[i].ProjectID[1] = projectID}
                      IN  /\ DOMAIN secretByProj[projectID] =
                                {secrets[i].Key : i \in of}
                          /\ \A k \in DOMAIN secretByProj[projectID] :
                                secretByProj[projectID][k] =
                                    secrets[Last({i \in of :
                                                     secrets[i].Key = k})].ID
                /\ obs[p].ids = "empty" =>
                      /\ cnt[p].getByIDS = 0
                      /\ secrets = <<>>
                      /\ secretByProj = EmptyMap
                /\ obs[p].ids = "some" => cnt[p].getByIDS = 1

\* a refresh has installed maps built from two projects of one name, two
\* records of one project and key, and a record without a project
C19_Witness ==
    /\ pc[Solo] = "refreshCache_Unlock"
    /\ LET projects == loc[Solo].projects
           secrets == loc[Solo].secrets
       IN  /\ \E i \in DOMAIN projects, j \in DOMAIN projects :
                 i < j /\ projects[i].Name = projects[j].Name
           /\ \E i \in DOMAIN secrets, j \in DOMAIN secrets :
                 /\ i < j
                 /\ secrets[i].ProjectID # NilProject
                 /\ secrets[i].ProjectID = secrets[j].ProjectID
                 /\ secrets[i].Key = secrets[j].Key
           /\ \E i \in DOMAIN secrets : secrets[i].ProjectID = NilProject

(* C20: with ttl > 0, a project/key Resolve that finds projectByName empty *)
(* goes to the refresh even when the clock is before expiresAt, as after a *)
(* refresh that listed no project; it reaches its lookup only after a full *)
(* refresh cycle, and when that refresh again lists no project it fails    *)
(* with the project-not-found error.                                       *)
C20_EmptyProjectsNeverFresh ==
    /\ [](\A p \in Procs :
            (ProjectKeyCall(p) /\ cacheTTL > 0 /\ obs[p].check = "empty") =>
                /\ pc[p] \in LookupPcs => RefreshDone(p)
                /\ (/\ pc[p] = "ret"
                    /\ RefreshDone(p)
                    /\ res[p].err \notin {ErrListProjects, ErrListSecrets,
                                          ErrGetSecrets}
                    /\ stamp.pbn = call[p].id
                    /\ inst.projects = <<>>)
                      => res[p].err = ErrProjectNotFound)
    /\ [][\A p \in Procs :
            (/\ pc[p] = "ensureCache_check"
             /\ pc'[p] # pc[p]
             /\ projectByName = EmptyMap)
               => /\ pc'[p] = "refreshCache"
                  /\ obs'[p].check = "empty"]_vars

\* the refresh of the first Resolve installed an empty project list that has
\* not expired; the second Resolve has read it and is about to refresh
C20_Witness ==
    /\ pc[Solo] = "refreshCache"
    /\ call[Solo].id = 2
    /\ ProjectKeyCall(Solo)
    /\ cacheTTL > 0
    /\ obs[Solo].check = "empty"
    /\ ~onceDone
    /\ stamp = [pbn |-> 1, sbp |-> 1, exp |-> 1]
    /\ inst.projects = <<>>
    /\ projectByName = EmptyMap
    /\ clock < expiresAt

====
